---- MODULE Spec2Model ----
(***************************************************************************)
(* A model of the scoring runtime of meta-vsc-descriptor-runtime:          *)
(*   - query_iterator          (runtime/scoring/generate_rankings.py)      *)
(*   - search_with_capped_res  (runtime/scoring/generate_rankings.py)      *)
(*   - evaluate_similarity     (runtime/scoring/generate_rankings.py)      *)
(*   - precision_recall, average_precision, find_operating_point,          *)
(*     evaluate_metrics        (runtime/scoring/metric.py)                 *)
(*                                                                         *)
(* Each component has its own specification over the shared variables; the *)
(* variables of the other components stay at their idle values.            *)
(***************************************************************************)
EXTENDS Integers, Sequences, FiniteSets, TLC

VARIABLES
    \* query_iterator: the generator's frame
    nq,          \* len(xq)
    bs,          \* the local bs of the frame
    i,           \* the local i of the frame
    batches,     \* the batches yielded so far, in order
    qpc,         \* "idle" | "start" | "yielded" | "done"
    \* evaluate_metrics: its arguments and what the call produced
    submission_df,   \* the candidate rows [query_id, reference_id, score]
    gt_df,           \* the ground-truth rows [query_id, reference_id]
    mpc,             \* "idle" | "call" | "returned" | "raised"
    metrics,         \* the locals and the result of the call
    \* search_with_capped_res and the table evaluate_similarity builds
    dist,            \* dist[q][r]: the index's distance of query q to reference r
    num_results,     \* the argument num_results
    query_ids,       \* the video of each query descriptor
    reference_ids,   \* the video of each reference descriptor
    raw,             \* [lims, dis, ids] as range_search_max_results returns them
    mask,            \* the positions of raw the crop keeps
    capped,          \* [lims, dis, ids] as search_with_capped_res returns them
    table,           \* matching_submission_df
    spc,             \* "idle" | "call" | "searched" | "returned" | "raised"
    \* evaluate_similarity: the descriptors and their augmentation
    query,           \* the query descriptors
    reference,       \* the reference descriptors
    aug_query,       \* augment_xq(query)
    aug_reference,   \* augment_xb(reference)
    apc              \* "idle" | "call" | "augmented" | "indexed"

vars == <<nq, bs, i, batches, qpc, submission_df, gt_df, mpc, metrics,
          dist, num_results, query_ids, reference_ids, raw, mask, capped,
          table, spc, query, reference, aug_query, aug_reference, apc>>

qiVars == <<nq, bs, i, batches, qpc>>
metricVars == <<submission_df, gt_df, mpc, metrics>>
searchVars == <<dist, num_results, query_ids, reference_ids, raw, mask,
                capped, table, spc>>
augVars == <<query, reference, aug_query, aug_reference, apc>>

----------------------------------------------------------------------------
(* Bounds of the model *)

\* the largest query collection query_iterator is run on
MaxQueries == 65510
\* the number of reference videos R1, R2, ... the candidates and the ground
\* truth of evaluate_metrics range over
NumRefs == 3
\* the largest number of ground-truth rows
MaxGt == 2
\* the largest number of query descriptors searched
MaxSearchQueries == 2
\* distances are 0..MaxDistance
MaxDistance == 2
\* the largest num_results asked of search_with_capped_res
MaxNumResults == 3
\* descriptor coordinates are -1..MaxCoord
MaxCoord == 2

----------------------------------------------------------------------------
(* Program constants *)

\* generate_rankings.py:27   bs = 32
FirstBatchSize == 32
\* generate_rankings.py:32   if bs < 20_000
BatchSizeLimit == 20000

----------------------------------------------------------------------------
(* query_iterator, generate_rankings.py:22-34 *)

Min(a, b) == IF a <= b THEN a ELSE b

\* a slice that is not clamped to the end of the collection
SliceLenUnclamped(n, from, size) == size

\* xq[i : i + bs] of a collection of n rows: the rows i .. min(i + bs, n) - 1
SliceLen(n, from, size) == IF from >= n THEN 0 ELSE Min(from + size, n) - from

\* a schedule that clamps the doubled size to the limit
NextBatchSizeClamped(b) == Min(b * 2, BatchSizeLimit)

\* lines 32-33: the size scheduled after a batch of scheduled size b
NextBatchSize(b) == IF b < BatchSizeLimit THEN b * 2 ELSE b

\* The whole generator run to exhaustion: the sequence of batches it yields,
\* each [start, len, sched] (first row, rows held, size scheduled).
RECURSIVE QueryIteratorFrom(_, _, _)
QueryIteratorFrom(n, from, size) ==
    IF from < n
    THEN LET len == SliceLen(n, from, size)
         IN  <<[start |-> from, len |-> len, sched |-> size]>>
             \o QueryIteratorFrom(n, from + len, NextBatchSize(size))
    ELSE <<>>

query_iterator(n) == QueryIteratorFrom(n, 0, FirstBatchSize)

\* The generator is suspended between two calls of next(): before its first
\* line ("start"), or at the yield of line 31 ("yielded"), where i and bs
\* are still those the batch was sliced with. A call of next() resumes it:
\* after a yield it first runs lines 32-34, then the loop test of line 29.

\* bs once the generator is resumed: lines 32-33 run after a yield
ResumedBs == IF qpc = "yielded" THEN NextBatchSize(bs) ELSE bs

\* i once the generator is resumed: line 34 adds len(xqi), the length of the
\* batch last yielded
ResumedI == IF qpc = "yielded" THEN i + batches[Len(batches)].len ELSE i

\* next() that delivers a batch: the loop test holds, xq[i : i + bs] is
\* yielded and the generator suspends at line 31
QIYield ==
    /\ qpc \in {"start", "yielded"}
    /\ ResumedI < nq
    /\ batches' = Append(batches, [start |-> ResumedI,
                                   len |-> SliceLen(nq, ResumedI, ResumedBs),
                                   sched |-> ResumedBs])
    /\ i' = ResumedI
    /\ bs' = ResumedBs
    /\ qpc' = "yielded"
    /\ UNCHANGED nq
    /\ UNCHANGED <<metricVars, searchVars, augVars>>

\* next() that raises StopIteration: the loop test fails and the generator
\* is exhausted
QIStop ==
    /\ qpc \in {"start", "yielded"}
    /\ ~(ResumedI < nq)
    /\ i' = ResumedI
    /\ bs' = ResumedBs
    /\ qpc' = "done"
    /\ UNCHANGED <<nq, batches>>
    /\ UNCHANGED <<metricVars, searchVars, augVars>>

MetricIdle ==
    /\ submission_df = <<>>
    /\ gt_df = <<>>
    /\ mpc = "idle"
    /\ metrics = [raised |-> "none"]

NoResult == [lims |-> <<0>>, dis |-> <<>>, ids |-> <<>>]

SearchIdle ==
    /\ dist = <<>>
    /\ num_results = 0
    /\ query_ids = <<>>
    /\ reference_ids = <<>>
    /\ raw = NoResult
    /\ mask = {}
    /\ capped = NoResult
    /\ table = <<>>
    /\ spc = "idle"

AugIdle ==
    /\ query = <<>>
    /\ reference = <<>>
    /\ aug_query = <<>>
    /\ aug_reference = <<>>
    /\ apc = "idle"

InitQI ==
    /\ MetricIdle
    /\ SearchIdle
    /\ AugIdle
    /\ nq \in 0..MaxQueries
    /\ bs = FirstBatchSize
    /\ i = 0
    /\ batches = <<>>
    /\ qpc = "start"

NextQI == QIYield \/ QIStop

SpecQI == InitQI /\ [][NextQI]_vars

----------------------------------------------------------------------------
(* Claims about query_iterator *)

BatchEnd(b) == b.start + b.len

\* C1: for every N >= 0 the batches query_iterator yields are non-empty,
\* contiguous index ranges: the first starts at 0, each starts where the
\* previous one ended, none passes N, and when the generator is exhausted the
\* last one ends at N (no batch at all for N = 0). While the generator is
\* suspended at a yield its i is still the start of the batch it delivered;
\* while it is not exhausted next() can always be answered, and it yields at
\* most N batches, so it terminates.
C1_BatchesCoverRange ==
    /\ \A k \in 1..Len(batches) :
          /\ batches[k].len >= 1
          /\ batches[k].start = (IF k = 1 THEN 0 ELSE BatchEnd(batches[k - 1]))
          /\ BatchEnd(batches[k]) <= nq
    /\ (qpc = "start") => (i = 0 /\ batches = <<>>)
    /\ (qpc = "yielded") =>
          /\ batches # <<>>
          /\ i = batches[Len(batches)].start
          /\ bs = batches[Len(batches)].sched
    /\ Len(batches) <= nq
    /\ (qpc \in {"start", "yielded"}) => ENABLED NextQI
    /\ (qpc = "done") => (i = nq /\ batches = query_iterator(nq))

\* C1 witness: an exhausted generator that yielded several batches, the last
\* one cut short to end at N.
C1_Witness ==
    /\ qpc = "done"
    /\ Len(batches) >= 3
    /\ batches[Len(batches)].len < batches[Len(batches)].sched
    /\ BatchEnd(batches[Len(batches)]) = nq

\* the number of doublings after which the scheduled size is no longer below
\* the limit
DoublingsToLimit ==
    CHOOSE j \in 0..BatchSizeLimit :
        /\ FirstBatchSize * 2^j >= BatchSizeLimit
        /\ \A h \in 0..(j - 1) : FirstBatchSize * 2^h < BatchSizeLimit

\* the largest size the schedule reaches (32768)
LargestBatchSize == FirstBatchSize * 2^DoublingsToLimit

\* C2 as claimed: the k-th batch is scheduled min(32 * 2^(k-1), 20000) rows,
\* holds that many unless it is the final one, and so never more than 20000.
C2_Claimed_CapAt20000 ==
    \A k \in 1..Len(batches) :
        /\ batches[k].len <= BatchSizeLimit
        /\ batches[k].len =
              Min(Min(FirstBatchSize * 2^(k - 1), BatchSizeLimit),
                  nq - batches[k].start)

\* C2 amended: the first batch is scheduled 32 rows, each following batch
\* twice the previous size while the previous size is below 20000, and the
\* same size from then on; the doubling overshoots the limit, so the sizes
\* are 32 * 2^min(k-1, 10) and a batch holds up to 32768 rows. A batch holds
\* its scheduled size unless it is the final batch, which ends at N.
C2_ScheduleDoublesPastLimit ==
    \A k \in 1..Len(batches) :
        /\ batches[k].sched = FirstBatchSize * 2^Min(k - 1, DoublingsToLimit)
        /\ batches[k].sched =
              (IF k = 1 THEN FirstBatchSize
               ELSE IF batches[k - 1].sched < BatchSizeLimit
                    THEN 2 * batches[k - 1].sched
                    ELSE batches[k - 1].sched)
        /\ batches[k].len = Min(batches[k].sched, nq - batches[k].start)
        /\ batches[k].len <= LargestBatchSize
        /\ (batches[k].len < batches[k].sched) =>
              (k = Len(batches) /\ BatchEnd(batches[k]) = nq)

\* C2 witness: a batch of more than 20000 rows was yielded, and the batch
\* after it was scheduled the same size.
C2_Witness ==
    \E k \in 1..(Len(batches) - 1) :
        /\ batches[k].len > BatchSizeLimit
        /\ batches[k + 1].sched = batches[k].sched


----------------------------------------------------------------------------
(* Floating-point values of the metric code.                               *)
(*                                                                         *)
(* A float is [k, n, d]: k = "fin" is the rational n/d in lowest terms     *)
(* with d > 0, k = "nan" is NaN and k = "inf" is +inf. The metric code     *)
(* only divides counts and sums products of such quotients, so the values  *)
(* are kept exact; NaN and inf follow IEEE 754 as numpy applies it (a      *)
(* division by zero warns and yields NaN or inf, it does not raise).       *)

RECURSIVE GCD(_, _)
GCD(a, b) == IF b = 0 THEN a ELSE GCD(b, a % b)

Abs(a) == IF a < 0 THEN -a ELSE a

NaN == [k |-> "nan", n |-> 0, d |-> 1]
Inf == [k |-> "inf", n |-> 1, d |-> 1]

\* the float n/d for integers n and d > 0
Rat(n, d) ==
    LET g == GCD(Abs(n), d)
    IN  [k |-> "fin", n |-> n \div g, d |-> d \div g]

Zero == Rat(0, 1)

\* numpy's a / b for counts a >= 0 and b >= 0
FDiv(a, b) ==
    IF b # 0 THEN Rat(a, b)
    ELSE IF a = 0 THEN NaN
    ELSE Inf

\* x - y, for y never below zero
FSub(x, y) ==
    IF x.k = "nan" \/ y.k = "nan" THEN NaN
    ELSE IF x.k = "inf" THEN (IF y.k = "inf" THEN NaN ELSE Inf)
    ELSE IF y.k = "inf" THEN [k |-> "ninf", n |-> -1, d |-> 1]
    ELSE Rat(x.n * y.d - y.n * x.d, x.d * y.d)

\* x * y
FMul(x, y) ==
    IF x.k = "nan" \/ y.k = "nan" THEN NaN
    ELSE IF x.k = "fin" /\ y.k = "fin" THEN Rat(x.n * y.n, x.d * y.d)
    ELSE IF (x.k = "fin" /\ x.n = 0) \/ (y.k = "fin" /\ y.n = 0) THEN NaN
    ELSE IF (x.n < 0) # (y.n < 0) THEN [k |-> "ninf", n |-> -1, d |-> 1]
    ELSE Inf

\* x + y
FAdd(x, y) ==
    IF x.k = "nan" \/ y.k = "nan" THEN NaN
    ELSE IF x.k = "fin" /\ y.k = "fin"
         THEN Rat(x.n * y.d + y.n * x.d, x.d * y.d)
    ELSE IF x.k = "fin" THEN y
    ELSE IF y.k = "fin" THEN x
    ELSE IF x.k = y.k THEN x
    ELSE NaN

\* x <= y: false whenever a NaN is compared
FLeq(x, y) ==
    IF x.k = "nan" \/ y.k = "nan" THEN FALSE
    ELSE IF x.k = "ninf" \/ y.k = "inf" THEN TRUE
    ELSE IF x.k = "inf" \/ y.k = "ninf" THEN FALSE
    ELSE x.n * y.d <= y.n * x.d

----------------------------------------------------------------------------
(* metric.py *)

Reverse(seq) == [p \in 1..Len(seq) |-> seq[Len(seq) + 1 - p]]

\* Python's < on the tuples (score, not judgement): the scores decide, and
\* at equal score False sorts before True
TupleLess(a, b) ==
    \/ a[1] < b[1]
    \/ (a[1] = b[1] /\ a[2] = FALSE /\ b[2] = TRUE)

\* metric.py:6-10 argsort: sorted(range(len(seq)), key=seq.__getitem__), a
\* stable ascending sort, so equal keys keep their index order. Indices are
\* 1-based here.
argsort(seq) ==
    LET n == Len(seq)
        Before(a, b) ==
            \/ TupleLess(seq[a], seq[b])
            \/ (~TupleLess(seq[b], seq[a]) /\ a < b)
        Pos(a) == 1 + Cardinality({b \in 1..n : Before(b, a)})
    IN  [p \in 1..n |-> CHOOSE a \in 1..n : Pos(a) = p]

\* the order with the judgement itself, not its negation, as the tie-break
SortOrderJudgementKey(y_true, probas_pred) ==
    Reverse(argsort([a \in 1..Len(y_true) |-> <<probas_pred[a], y_true[a]>>]))

\* the order by score alone, equal scores left in (reversed) input order
SortOrderScoreOnly(y_true, probas_pred) ==
    Reverse(argsort([a \in 1..Len(y_true) |-> <<probas_pred[a], FALSE>>]))

\* metric.py:40-41: the order precision_recall puts the predictions in
SortOrder(y_true, probas_pred) ==
    Reverse(argsort([a \in 1..Len(y_true) |-> <<probas_pred[a], ~y_true[a]>>]))

\* np.cumsum of booleans: the number of TRUE among the first k entries
CumSum(y, k) == Cardinality({a \in 1..k : y[a]})

\* metric.py:13-50 precision_recall. An empty list of judgements is a float
\* array, which ~ rejects with a TypeError.
precision_recall(y_true, probas_pred, num_positives) ==
    IF Len(y_true) = 0
    THEN [raised |-> "TypeError"]
    ELSE LET order == SortOrder(y_true, probas_pred)
             n == Len(y_true)
             sorted_pred == [p \in 1..n |-> probas_pred[order[p]]]
             sorted_true == [p \in 1..n |-> y_true[order[p]]]
         IN  [raised |-> "none",
              order |-> order,
              y_true |-> sorted_true,
              precisions |-> [p \in 1..n |-> FDiv(CumSum(sorted_true, p), p)],
              recalls |-> [p \in 1..n |->
                              FDiv(CumSum(sorted_true, p), num_positives)],
              thresholds |-> sorted_pred]

RECURSIVE FSum(_, _)
FSum(seq, k) == IF k = 0 THEN Zero ELSE FAdd(FSum(seq, k - 1), seq[k])

\* an average precision that weighs each precision by the recall, not by the
\* recall gained at that point
average_precision_no_delta(recalls, precisions) ==
    LET n == Len(recalls)
    IN  IF ~(\A p \in 1..(n - 1) : FLeq(recalls[p], recalls[p + 1]))
        THEN [raised |-> "Exception", ap |-> NaN]
        ELSE [raised |-> "none",
              ap |-> FSum([p \in 1..n |-> FMul(recalls[p], precisions[p])], n)]

\* metric.py:53-72 average_precision
average_precision(recalls, precisions) ==
    LET n == Len(recalls)
    IN  IF ~(\A p \in 1..(n - 1) : FLeq(recalls[p], recalls[p + 1]))
        THEN [raised |-> "Exception", ap |-> NaN]
        ELSE LET terms == [p \in 1..n |->
                              FMul(FSub(recalls[p],
                                        IF p = 1 THEN Zero ELSE recalls[p - 1]),
                                   precisions[p])]
             IN  [raised |-> "none", ap |-> FSum(terms, n)]

\* required_x of the operating point evaluate_metrics asks for (metric.py:124)
RequiredPrecision == Rat(9, 10)

\* metric.py:75-96 find_operating_point, its y: the y of the first point of
\* highest y among those with x >= required_x, or None
find_operating_point(x, y, required_x) ==
    LET valid == {p \in 1..Len(x) : FLeq(required_x, x[p])}
    IN  IF valid = {}
        THEN [found |-> FALSE, y |-> NaN]
        ELSE LET best == CHOOSE p \in valid :
                     /\ \A o \in valid : FLeq(y[o], y[p])
                     /\ \A o \in valid : (o < p) => ~FLeq(y[p], y[o])
             IN  [found |-> TRUE, y |-> y[best]]

\* a ground-truth row of a query without a match has no reference_id
NoRef == "nan"

\* metric.py:100-104 gt_pairs
GtPairs(gt) ==
    {<<gt[a].query_id, gt[a].reference_id>> :
        a \in {b \in 1..Len(gt) : gt[b].reference_id # NoRef}}

\* metric.py:99-130 evaluate_metrics
evaluate_metrics(sub, gt) ==
    LET gt_pairs == GtPairs(gt)
        y_true == [a \in 1..Len(sub) |->
                      <<sub[a].query_id, sub[a].reference_id>> \in gt_pairs]
        probas_pred == [a \in 1..Len(sub) |-> sub[a].score]
        pr == precision_recall(y_true, probas_pred, Cardinality(gt_pairs))
    IN  IF pr.raised # "none"
        THEN [raised |-> pr.raised]
        ELSE LET apr == average_precision(pr.recalls, pr.precisions)
             IN  IF apr.raised # "none"
                 THEN [raised |-> apr.raised,
                       order |-> pr.order,
                       y_true |-> pr.y_true,
                       precisions |-> pr.precisions,
                       recalls |-> pr.recalls,
                       thresholds |-> pr.thresholds,
                       num_positives |-> Cardinality(gt_pairs)]
                 ELSE LET op == find_operating_point(pr.precisions, pr.recalls,
                                                     RequiredPrecision)
                      IN  [raised |-> "none",
                           order |-> pr.order,
                           y_true |-> pr.y_true,
                           precisions |-> pr.precisions,
                           recalls |-> pr.recalls,
                           thresholds |-> pr.thresholds,
                           num_positives |-> Cardinality(gt_pairs),
                           ap |-> apr.ap,
                           rp90 |-> IF op.found THEN op.y ELSE Zero]

\* the call MicroAveragePrecision.score makes (metric.py:133-138)
EvaluateMetrics ==
    /\ mpc = "call"
    /\ metrics' = evaluate_metrics(submission_df, gt_df)
    /\ mpc' = (IF metrics'.raised = "none" THEN "returned" ELSE "raised")
    /\ UNCHANGED <<submission_df, gt_df>>
    /\ UNCHANGED <<qiVars, searchVars, augVars>>

QIIdle ==
    /\ nq = 0
    /\ bs = FirstBatchSize
    /\ i = 0
    /\ batches = <<>>
    /\ qpc = "idle"

QueryVideos == {"Q1"}
RefVideos == {"R" \o ToString(r) : r \in 1..NumRefs}
\* scores in tenths: 0.5, 0.8, 0.9
Scores == {5, 8, 9}

\* sequences of at most n elements of S
SeqsUpTo(S, n) == UNION {[1..m -> S] : m \in 0..n}

\* no two rows name the same (query_id, reference_id) pair
PairsDistinct(rows) ==
    \A a, b \in 1..Len(rows) :
        (a # b) => (<<rows[a].query_id, rows[a].reference_id>>
                    # <<rows[b].query_id, rows[b].reference_id>>)

\* The candidate tables evaluate_similarity hands over hold one row per pair
\* (generate_rankings.py:118-120); the ground truth lists each row once.
InitMetric ==
    /\ QIIdle
    /\ SearchIdle
    /\ AugIdle
    /\ submission_df \in
         {c \in SeqsUpTo([query_id : QueryVideos, reference_id : RefVideos,
                          score : Scores], NumRefs) : PairsDistinct(c)}
    /\ gt_df \in
         {g \in SeqsUpTo([query_id : QueryVideos,
                          reference_id : RefVideos \cup {NoRef}], MaxGt) :
             PairsDistinct(g)}
    /\ mpc = "call"
    /\ metrics = [raised |-> "none"]

\* the elements of a set of integers in increasing order
Ascending(S) ==
    [p \in 1..Cardinality(S) |->
        CHOOSE x \in S : Cardinality({y \in S : y < x}) = p - 1]

RefName(r) == IF r = 0 THEN NoRef ELSE "R" \o ToString(r)

\* The same tables, each listed once, rows by increasing reference: the
\* other row orders are the permutations of these.
InitMetricTables ==
    /\ QIIdle
    /\ SearchIdle
    /\ AugIdle
    /\ \E R \in SUBSET (1..NumRefs) :
          \E q \in [R -> QueryVideos] :
              \E f \in [R -> Scores] :
                  submission_df =
                      [p \in 1..Cardinality(R) |->
                          [query_id |-> q[Ascending(R)[p]],
                           reference_id |-> RefName(Ascending(R)[p]),
                           score |-> f[Ascending(R)[p]]]]
    /\ \E G \in {H \in SUBSET (0..NumRefs) : Cardinality(H) <= MaxGt} :
          \E q \in [G -> QueryVideos] :
              gt_df = [p \in 1..Cardinality(G) |->
                          [query_id |-> q[Ascending(G)[p]],
                           reference_id |-> RefName(Ascending(G)[p])]]
    /\ mpc = "call"
    /\ metrics = [raised |-> "none"]

NextMetric == EvaluateMetrics

SpecMetric == InitMetric /\ [][NextMetric]_vars

SpecMetricTables == InitMetricTables /\ [][NextMetric]_vars

----------------------------------------------------------------------------
(* Claims about the metric engine *)

Called == mpc \in {"returned", "raised"}

\* C3 as claimed: with no ground-truth pair, evaluate_metrics returns an
\* average precision of exactly 0.0, whatever the candidates; it neither
\* raises nor returns NaN.
C3_Claimed_EmptyGroundTruthScoresZero ==
    (Called /\ GtPairs(gt_df) = {}) =>
        (mpc = "returned" /\ metrics.ap = Zero)

\* the rows of seq in the order perm
Permuted(seq, perm) == [p \in 1..Len(seq) |-> seq[perm[p]]]

Perms(n) == {f \in [1..n -> 1..n] : \A a, b \in 1..n : (a # b) => (f[a] # f[b])}

Sorted(p) == submission_df[metrics.order[p]]
SortedPair(p) == <<Sorted(p).query_id, Sorted(p).reference_id>>
Matching(p) == SortedPair(p) \in GtPairs(gt_df)
HasCurve == Called /\ Len(submission_df) >= 1

\* what precision_recall returns is the candidates in the order it chose
C4_OrderIsThePermutationReturned ==
    /\ metrics.order \in Perms(Len(submission_df))
    /\ \A p \in 1..Len(submission_df) :
          /\ metrics.thresholds[p] = Sorted(p).score
          /\ metrics.y_true[p] = Matching(p)

\* C4 as claimed: precision_recall orders the candidates by score
\* descending, and at equal score every matching candidate comes before
\* every non-matching one.
C4_Claimed_MatchingFirstAtTies ==
    HasCurve =>
        /\ C4_OrderIsThePermutationReturned
        /\ \A p, q \in 1..Len(submission_df) :
              (p < q) =>
                  /\ Sorted(p).score >= Sorted(q).score
                  /\ (Sorted(p).score = Sorted(q).score)
                        => ~(~Matching(p) /\ Matching(q))

\* C4 amended: precision_recall orders the candidates by score descending,
\* and at equal score every non-matching candidate comes before every
\* matching one.
C4_NonMatchingFirstAtTies ==
    HasCurve =>
        /\ C4_OrderIsThePermutationReturned
        /\ \A p, q \in 1..Len(submission_df) :
              (p < q) =>
                  /\ Sorted(p).score >= Sorted(q).score
                  /\ (Sorted(p).score = Sorted(q).score)
                        => ~(Matching(p) /\ ~Matching(q))

\* C4 witness: a matching and a non-matching candidate of equal score were
\* sorted, in an input order that listed the matching one first.
C4_Witness ==
    /\ HasCurve
    /\ \E a, b \in 1..Len(submission_df) :
          /\ a < b
          /\ submission_df[a].score = submission_df[b].score
          /\ <<submission_df[a].query_id, submission_df[a].reference_id>>
                \in GtPairs(gt_df)
          /\ <<submission_df[b].query_id, submission_df[b].reference_id>>
                \notin GtPairs(gt_df)

\* what a call of evaluate_metrics gives for the average precision: the
\* value it returns, or the exception it raises
APOutcome(res) ==
    IF res.raised # "none" THEN <<"raised", res.raised>> ELSE <<"ap", res.ap>>

\* C9: the average precision evaluate_metrics gives does not depend on the
\* order of the candidate rows nor on the order of the ground-truth rows:
\* every permutation of either gives the outcome the call gave.
C9_APIgnoresRowOrder ==
    Called =>
        \A cp \in Perms(Len(submission_df)) :
            \A gp \in Perms(Len(gt_df)) :
                APOutcome(evaluate_metrics(Permuted(submission_df, cp),
                                           Permuted(gt_df, gp)))
                    = APOutcome(metrics)

\* C9 witness: a call that returned an AP for at least three candidates, two
\* of them tied in score with different judgements, and two ground-truth
\* rows.
C9_Witness ==
    /\ mpc = "returned"
    /\ Len(submission_df) >= 3
    /\ Len(gt_df) >= 2
    /\ \E p \in 1..(Len(submission_df) - 1) :
          /\ Sorted(p).score = Sorted(p + 1).score
          /\ Matching(p) # Matching(p + 1)

\* tp(k): the matching candidates among the first k in sorted order
TruePositives(k) == Cardinality({p \in 1..k : Matching(p)})

RECURSIVE APSum(_)
APSum(k) ==
    IF k = 0 THEN Zero
    ELSE FAdd(APSum(k - 1),
              FMul(FSub(metrics.recalls[k],
                        IF k = 1 THEN Zero ELSE metrics.recalls[k - 1]),
                   metrics.precisions[k]))

ScenarioCandidates ==
    << [query_id |-> "Q1", reference_id |-> "R1", score |-> 9],
       [query_id |-> "Q1", reference_id |-> "R3", score |-> 8],
       [query_id |-> "Q1", reference_id |-> "R2", score |-> 5] >>

ScenarioGroundTruth ==
    << [query_id |-> "Q1", reference_id |-> "R1"],
       [query_id |-> "Q1", reference_id |-> "R2"] >>

InScenario ==
    /\ Called
    /\ submission_df = ScenarioCandidates
    /\ gt_df = ScenarioGroundTruth

\* C10: for a non-empty candidate list and a non-empty ground truth the call
\* returns, point k of the curve has precision tp(k)/k and recall
\* tp(k)/|ground truth|, the recall never decreases, and the AP is the sum of
\* (recall(k) - recall(k-1)) * precision(k); for the ground truth
\* {(Q1,R1),(Q1,R2)} and the candidates (Q1,R1,0.9), (Q1,R3,0.8),
\* (Q1,R2,0.5) the points are (1, 1, 1/2), (1, 1/2, 1/2), (2, 2/3, 1) and
\* the AP is 5/6.
C10_CurveAndAveragePrecision ==
    /\ (HasCurve /\ GtPairs(gt_df) # {}) =>
          /\ mpc = "returned"
          /\ \A k \in 1..Len(submission_df) :
                /\ metrics.precisions[k] = Rat(TruePositives(k), k)
                /\ metrics.recalls[k] =
                      Rat(TruePositives(k), Cardinality(GtPairs(gt_df)))
                /\ (k > 1) => FLeq(metrics.recalls[k - 1], metrics.recalls[k])
          /\ metrics.ap = APSum(Len(submission_df))
    /\ InScenario =>
          /\ mpc = "returned"
          /\ [k \in 1..3 |-> TruePositives(k)] = <<1, 1, 2>>
          /\ metrics.precisions = <<Rat(1, 1), Rat(1, 2), Rat(2, 3)>>
          /\ metrics.recalls = <<Rat(1, 2), Rat(1, 2), Rat(1, 1)>>
          /\ metrics.ap = Rat(5, 6)

\* C10 witness: the call on the scenario returned.
C10_Witness == InScenario /\ mpc = "returned"

----------------------------------------------------------------------------
(* search_with_capped_res and the candidate table of evaluate_similarity,  *)
(* generate_rankings.py:37-70 and 101-121.                                 *)
(*                                                                         *)
(* Positions are 1-based: entry lims[i] here is lims[i - 1] of the code, a *)
(* flat position j here is position j - 1 there, and the hits of query i   *)
(* are the flat positions lims[i] + 1 .. lims[i + 1].                      *)

\* A radius is [k, v]: k = "fin" is the distance v, k = "1e10" is the float
\* 1e10, which no integer of the checker reaches.
Radius(v) == [k |-> "fin", v |-> v]

\* generate_rankings.py:49: the radius the search starts with
InitialRadius == [k |-> "1e10", v |-> 0]

\* index.range_search keeps the distances strictly below the radius; every
\* integer distance is below 1e10
Within(d, rad) == IF rad.k = "1e10" THEN TRUE ELSE d < rad.v

\* the hits of query q: the references within the radius, by increasing
\* reference index
RECURSIVE HitsOfQuery(_, _, _, _)
HitsOfQuery(D, q, rad, r) ==
    IF r = 0 THEN <<>>
    ELSE HitsOfQuery(D, q, rad, r - 1)
         \o (IF Within(D[q][r], rad)
             THEN <<[q |-> q, id |-> r, d |-> D[q][r]]>> ELSE <<>>)

\* index.range_search(xqi, radius) for the batch of len queries after the
\* first `from` ones
RECURSIVE FlatHits(_, _, _, _)
FlatHits(D, rad, from, len) ==
    IF len = 0 THEN <<>>
    ELSE FlatHits(D, rad, from, len - 1)
         \o HitsOfQuery(D, from + len, rad, Len(D[from + len]))

\* np.cumsum([0] + counts)
RECURSIVE CumulativeCounts(_, _)
CumulativeCounts(counts, k) ==
    IF k = 0 THEN <<0>>
    ELSE LET before == CumulativeCounts(counts, k - 1)
         IN  Append(before, before[k] + counts[k])

\* the hits of a list strictly below a radius, in their order
RECURSIVE Below(_, _, _)
Below(hits, rad, k) ==
    IF k = 0 THEN <<>>
    ELSE Below(hits, rad, k - 1)
         \o (IF Within(hits[k].d, rad) THEN <<hits[k]>> ELSE <<>>)

\* the library's apply_maxres(res_batches, target): the radius becomes the
\* distance at position target (from 0) of the sorted distances, and only
\* the hits strictly below it are kept
apply_maxres(hits, target) ==
    LET radius == CHOOSE v \in {hits[j].d : j \in 1..Len(hits)} :
                      /\ Cardinality({j \in 1..Len(hits) : hits[j].d < v}) <= target
                      /\ Cardinality({j \in 1..Len(hits) : hits[j].d <= v}) > target
    IN  [radius |-> Radius(radius),
         hits |-> Below(hits, Radius(radius), Len(hits))]

\* The library's loop over the batches of query_iterator: each batch is
\* searched at the current radius and its hits are added to those found so
\* far; when the total exceeds max_results the radius is scaled back to
\* leave at most min_results hits. The state after the first k batches.
RECURSIVE SearchedThrough(_, _, _, _)
SearchedThrough(D, max_results, min_results, k) ==
    IF k = 0 THEN [radius |-> InitialRadius, hits |-> <<>>]
    ELSE LET before == SearchedThrough(D, max_results, min_results, k - 1)
             xqi == query_iterator(Len(D))[k]
             found == before.hits
                      \o FlatHits(D, before.radius, xqi.start, xqi.len)
         IN  IF Len(found) > max_results
             THEN apply_maxres(found, min_results)
             ELSE [radius |-> before.radius, hits |-> found]

\* generate_rankings.py:43-53: the index over xb and the library's
\* range_search_max_results over the batches of xq, started at radius 1e10:
\* the hits left when the batches are exhausted, grouped by query.
range_search_max_results(D, max_results, min_results) ==
    LET hits == SearchedThrough(D, max_results, min_results,
                                Len(query_iterator(Len(D)))).hits
        counts == [q \in 1..Len(D) |->
                      Cardinality({j \in 1..Len(hits) : hits[j].q = q})]
    IN  [lims |-> CumulativeCounts(counts, Len(D)),
         dis |-> [j \in 1..Len(hits) |-> hits[j].d],
         ids |-> [j \in 1..Len(hits) |-> hits[j].id]]

\* a partition that keeps the k largest distances
ArgPartitionLargest(dis, k) ==
    {o \in SUBSET (1..Len(dis)) :
        /\ Cardinality(o) = k
        /\ \A a \in o : \A b \in (1..Len(dis)) \ o : dis[a] >= dis[b]}

\* generate_rankings.py:59 dis.argpartition(num_results)[:num_results]: the
\* positions of k entries none of which is larger than an entry left out;
\* which of several equal entries it takes is numpy's choice.
ArgPartition(dis, k) ==
    {o \in SUBSET (1..Len(dis)) :
        /\ Cardinality(o) = k
        /\ \A a \in o : \A b \in (1..Len(dis)) \ o : dis[a] <= dis[b]}

\* arr[mask]: the entries at the positions kept, in their order
RECURSIVE Masked(_, _, _)
Masked(arr, o, k) ==
    IF k = 0 THEN <<>>
    ELSE Masked(arr, o, k - 1) \o (IF k \in o THEN <<arr[k]>> ELSE <<>>)

\* boundaries left as the range search returned them
NewLimsStale(lims, o, n) == lims

\* generate_rankings.py:64-67 new_lims: the cumulated number of kept
\* positions in each query's slice
NewLims(lims, o, n) ==
    CumulativeCounts(
        [q \in 1..n |-> Cardinality({j \in (lims[q] + 1)..lims[q + 1] : j \in o})],
        n)

\* generate_rankings.py:60-68: the results cropped to the positions o
Crop(r, o, n) ==
    [lims |-> NewLims(r.lims, o, n),
     dis |-> Masked(r.dis, o, Len(r.dis)),
     ids |-> Masked(r.ids, o, Len(r.ids))]

\* generate_rankings.py:37-70 search_with_capped_res
SearchWithCappedRes ==
    /\ spc = "call"
    /\ raw' = range_search_max_results(dist, 2 * num_results, num_results)
    /\ IF Len(raw'.dis) > num_results
       THEN \E o \in ArgPartition(raw'.dis, num_results) :
                /\ mask' = o
                /\ capped' = Crop(raw', o, Len(dist))
       ELSE /\ mask' = 1..Len(raw'.dis)
            /\ capped' = raw'
    /\ spc' = "searched"
    /\ UNCHANGED <<dist, num_results, query_ids, reference_ids, table>>
    /\ UNCHANGED <<qiVars, metricVars, augVars>>

\* generate_rankings.py:108-116 score_df: one row per returned hit
ScoreRows(r, qids, rids, n) ==
    LET QueryOf(j) == CHOOSE q \in 1..n : r.lims[q] < j /\ j <= r.lims[q + 1]
    IN  [j \in 1..r.lims[n + 1] |->
            [query_id |-> qids[QueryOf(j)],
             reference_id |-> rids[r.ids[j]],
             score |-> 0 - r.dis[j]]]

PairOf(row) == <<row.query_id, row.reference_id>>

PairLess(a, b) == a[1] < b[1] \/ (a[1] = b[1] /\ a[2] < b[2])

MaxOf(S) == CHOOSE x \in S : \A y \in S : y <= x
MinOf(S) == CHOOSE x \in S : \A y \in S : x <= y

\* a grouping that keeps the smallest score of each pair
GroupMin(rows) ==
    LET keys == {PairOf(rows[j]) : j \in 1..Len(rows)}
        key(p) == CHOOSE k \in keys :
                      Cardinality({m \in keys : PairLess(m, k)}) = p - 1
    IN  [p \in 1..Cardinality(keys) |->
            [query_id |-> key(p)[1],
             reference_id |-> key(p)[2],
             score |-> MinOf({rows[j].score :
                                j \in {h \in 1..Len(rows) : PairOf(rows[h]) = key(p)}})]]

\* generate_rankings.py:118-120
\* score_df.groupby(["query_id", "reference_id"]).score.max().reset_index():
\* one row per pair, in the order of the keys, with the pair's largest score
GroupMax(rows) ==
    LET keys == {PairOf(rows[j]) : j \in 1..Len(rows)}
        key(p) == CHOOSE k \in keys :
                      Cardinality({m \in keys : PairLess(m, k)}) = p - 1
    IN  [p \in 1..Cardinality(keys) |->
            [query_id |-> key(p)[1],
             reference_id |-> key(p)[2],
             score |-> MaxOf({rows[j].score :
                                j \in {h \in 1..Len(rows) : PairOf(rows[h]) = key(p)}})]]

\* generate_rankings.py:108-121: the table evaluate_similarity returns for
\* the results of the search. A frame built from no row has no columns, and
\* grouping it raises a KeyError.
BuildTable ==
    /\ spc = "searched"
    /\ IF Len(capped.dis) = 0
       THEN /\ table' = <<>>
            /\ spc' = "raised"
       ELSE /\ table' = GroupMax(ScoreRows(capped, query_ids, reference_ids,
                                           Len(dist)))
            /\ spc' = "returned"
    /\ UNCHANGED <<dist, num_results, query_ids, reference_ids, raw, mask, capped>>
    /\ UNCHANGED <<qiVars, metricVars, augVars>>

\* the video ids of n descriptors stored video by video: 1, then each the
\* same video as the one before or the next video
IdLists(n) ==
    {f \in [1..n -> 1..n] :
        /\ f[1] = 1
        /\ \A k \in 1..(n - 1) : f[k + 1] \in {f[k], f[k] + 1}}

\* the reference descriptor sets searched: two descriptors of one video, or
\* of two videos
ReferenceIdLists == {<<1, 1>>, <<1, 2>>}

\* search_with_capped_res is run for every num_results in 1..MaxNumResults;
\* evaluate_similarity passes len(reference) * 30 (generate_rankings.py:104),
\* which a crop only reaches with more than 30 query descriptors.
InitSearch ==
    /\ QIIdle
    /\ MetricIdle
    /\ AugIdle
    /\ reference_ids \in ReferenceIdLists
    /\ \E n \in 1..MaxSearchQueries :
          /\ query_ids \in IdLists(n)
          /\ dist \in [1..n -> [1..Len(reference_ids) -> 0..MaxDistance]]
    /\ num_results \in 1..MaxNumResults
    /\ raw = NoResult
    /\ mask = {}
    /\ capped = NoResult
    /\ table = <<>>
    /\ spc = "call"

NextSearch == SearchWithCappedRes \/ BuildTable

SpecSearch == InitSearch /\ [][NextSearch]_vars

----------------------------------------------------------------------------
(* Claims about search_with_capped_res and the candidate table *)

Searched == spc \in {"searched", "returned", "raised"}

\* the crop branch was taken: the range search found more than num_results
CropHappened == Searched /\ Len(raw.dis) > num_results

\* the flat positions of query q in results r
Slice(r, q) == (r.lims[q] + 1)..r.lims[q + 1]

\* the hits <<query, reference, distance>> that results r hold
HitsIn(r) ==
    UNION {{<<q, r.ids[j], r.dis[j]>> : j \in Slice(r, q)} : q \in 1..Len(dist)}

\* higher = more similar: the score of a hit is minus its L2 distance
ScoreOf(hit) == 0 - hit[3]

\* C5: whenever the raw result count exceeds num_results, the crop keeps
\* exactly num_results of the raw hits, pooled over all queries, and every
\* hit it keeps scores at least as high as every hit it drops.
C5_CropKeepsMostSimilar ==
    CropHappened =>
        /\ Len(capped.dis) = num_results
        /\ HitsIn(capped) \subseteq HitsIn(raw)
        /\ Cardinality(HitsIn(capped)) = num_results
        /\ \A kept \in HitsIn(capped) :
              \A dropped \in HitsIn(raw) \ HitsIn(capped) :
                  ScoreOf(kept) >= ScoreOf(dropped)

\* C5 witness: a crop that kept hits of two queries and dropped a hit that
\* is strictly less similar than one it kept.
C5_Witness ==
    /\ CropHappened
    /\ \E a, b \in HitsIn(capped) : a[1] # b[1]
    /\ \E kept \in HitsIn(capped) :
          \E dropped \in HitsIn(raw) \ HitsIn(capped) :
              ScoreOf(kept) > ScoreOf(dropped)

\* C6: what search_with_capped_res returns is consistent: lims has nq + 1
\* entries, starts at 0, never decreases and ends at the length of dis and
\* of ids, which is at most num_results (exactly num_results after a crop);
\* the slice of query q holds, once each and in their order, exactly the
\* hits the range search found for q that the crop kept, each with the
\* distance of q to that reference.
C6_LimsMatchFlatArrays ==
    Searched =>
        /\ Len(capped.lims) = Len(dist) + 1
        /\ capped.lims[1] = 0
        /\ \A q \in 1..Len(dist) : capped.lims[q] <= capped.lims[q + 1]
        /\ capped.lims[Len(dist) + 1] = Len(capped.dis)
        /\ Len(capped.ids) = Len(capped.dis)
        /\ Len(capped.dis) <= num_results
        /\ CropHappened => Len(capped.dis) = num_results
        /\ Len(capped.dis) = Cardinality(mask)
        /\ \A q \in 1..Len(dist) :
              /\ [j \in 1..(capped.lims[q + 1] - capped.lims[q]) |->
                     <<capped.ids[capped.lims[q] + j], capped.dis[capped.lims[q] + j]>>]
                 = Masked([j \in 1..Len(raw.dis) |-> <<raw.ids[j], raw.dis[j]>>],
                          mask \cap Slice(raw, q), Len(raw.dis))
              /\ \A j \in Slice(capped, q) :
                    capped.dis[j] = dist[q][capped.ids[j]]
              /\ \A j, h \in Slice(capped, q) :
                    (j # h) => (capped.ids[j] # capped.ids[h])

\* C6 witness: a crop over two queries dropped a hit of the first query, so
\* the second query's slice moved, and both queries keep a hit.
C6_Witness ==
    /\ CropHappened
    /\ Len(dist) = 2
    /\ 0 < capped.lims[2]
    /\ capped.lims[2] < raw.lims[2]
    /\ capped.lims[2] < capped.lims[3]

\* the (query video, reference video) pair a returned hit maps to
VideoPair(hit) == <<query_ids[hit[1]], reference_ids[hit[2]]>>

\* the table holds one row per pair of videos some returned hit maps to,
\* with the largest -distance of those hits
TableAggregatesHits ==
    /\ \A a, b \in 1..Len(table) :
          (a # b) => (PairOf(table[a]) # PairOf(table[b]))
    /\ {PairOf(table[a]) : a \in 1..Len(table)}
          = {VideoPair(hit) : hit \in HitsIn(capped)}
    /\ \A a \in 1..Len(table) :
          /\ \E hit \in HitsIn(capped) :
                /\ VideoPair(hit) = PairOf(table[a])
                /\ ScoreOf(hit) = table[a].score
          /\ \A hit \in HitsIn(capped) :
                (VideoPair(hit) = PairOf(table[a]))
                    => (ScoreOf(hit) <= table[a].score)

\* C7 as claimed: for every raw hit list, the empty one included,
\* evaluate_similarity returns a table that has at most one row per
\* (query_id, reference_id) pair, a row for each pair some returned hit maps
\* to and for no other pair, each row's score the largest -distance of the
\* hits mapping to its pair.
C7_Claimed_TableForEveryHitList ==
    /\ spc # "raised"
    /\ (spc = "returned") => TableAggregatesHits

\* What the code does: it returns that table for every hit list that is not
\* empty, and raises for the empty one, which the range search returns when
\* the distance its radius is scaled back to is the smallest one found.
C7_OneRowPerPairWithMaxScore ==
    /\ (spc = "returned") => (Len(capped.dis) >= 1 /\ TableAggregatesHits)
    /\ (spc = "raised") =>
          /\ Len(capped.dis) = 0
          /\ Len(dist) * Len(reference_ids) > 2 * num_results

\* C7 witness: two returned hits of different score map to the same pair of
\* videos, and the table was built.
C7_Witness ==
    /\ spc = "returned"
    /\ \E a, b \in HitsIn(capped) :
          /\ VideoPair(a) = VideoPair(b)
          /\ ScoreOf(a) # ScoreOf(b)

----------------------------------------------------------------------------
(* The augmentation of evaluate_similarity, generate_rankings.py:87-99, and *)
(* the L2 index over the augmented references, lines 43-44 and 101-106.    *)
(*                                                                         *)
(* A descriptor is a pair of integer coordinates. An augmented descriptor  *)
(* is [v, extra]: the descriptor and the appended coordinate, which is the *)
(* square root of the integer extra.root_of (0.0 is the root of 0), kept   *)
(* exact instead of rounded to float32.                                    *)

Coords == (0 - 1)..MaxCoord
Vectors == Coords \X Coords

\* q . r
InnerProduct(a, b) == a[1] * b[1] + a[2] * b[2]

\* (xb**2).sum(1) for one row
SquaredNorm(a) == InnerProduct(a, a)

RootOf(n) == [root_of |-> n]

\* an augmentation that appends a zero column to the references too
augment_xb_zero_column(xb) ==
    [r \in 1..Len(xb) |-> [v |-> xb[r], extra |-> RootOf(0)]]

\* generate_rankings.py:87-92 augment_xb, called with phi=None
augment_xb(xb) ==
    LET norms == [r \in 1..Len(xb) |-> SquaredNorm(xb[r])]
        phi == MaxOf({norms[r] : r \in 1..Len(xb)})
    IN  [r \in 1..Len(xb) |-> [v |-> xb[r], extra |-> RootOf(phi - norms[r])]]

\* generate_rankings.py:94-96 augment_xq
augment_xq(xq) ==
    [q \in 1..Len(xq) |-> [v |-> xq[q], extra |-> RootOf(0)]]

\* the largest integer whose square is at most n
ISqrt(n) == CHOOSE x \in 0..n : x * x <= n /\ (x + 1) * (x + 1) > n

\* (sqrt(s) - sqrt(t))^2, exact when s * t is a square, as it is when one of
\* the two coordinates is the 0 of a query
RootDiffSquared(s, t) ==
    s.root_of + t.root_of - 2 * ISqrt(s.root_of * t.root_of)

\* faiss.METRIC_L2 of an IndexFlat: the squared L2 distance
L2Squared(a, b) ==
    (a.v[1] - b.v[1]) * (a.v[1] - b.v[1])
    + (a.v[2] - b.v[2]) * (a.v[2] - b.v[2])
    + RootDiffSquared(a.extra, b.extra)

\* generate_rankings.py:98-99
Augment ==
    /\ apc = "call"
    /\ aug_query' = augment_xq(query)
    /\ aug_reference' = augment_xb(reference)
    /\ apc' = "augmented"
    /\ UNCHANGED <<query, reference>>
    /\ UNCHANGED <<qiVars, metricVars, searchVars>>

\* generate_rankings.py:43-44 and 101-106: the distances the L2 index over
\* aug_reference gives the rows of aug_query
IndexDistances ==
    /\ apc = "augmented"
    /\ dist' = [q \in 1..Len(aug_query) |->
                   [r \in 1..Len(aug_reference) |->
                       L2Squared(aug_query[q], aug_reference[r])]]
    /\ apc' = "indexed"
    /\ UNCHANGED <<query, reference, aug_query, aug_reference>>
    /\ UNCHANGED <<num_results, query_ids, reference_ids, raw, mask, capped,
                   table, spc>>
    /\ UNCHANGED <<qiVars, metricVars>>

\* the numbers of query and of reference descriptors augmented
Shapes == {<<1, 1>>, <<1, 2>>, <<2, 1>>, <<2, 2>>, <<1, 3>>}

InitAug ==
    /\ QIIdle
    /\ MetricIdle
    /\ SearchIdle
    /\ \E shape \in Shapes :
          /\ query \in [1..shape[1] -> Vectors]
          /\ reference \in [1..shape[2] -> Vectors]
    /\ aug_query = <<>>
    /\ aug_reference = <<>>
    /\ apc = "call"

NextAug == Augment \/ IndexDistances

SpecAug == InitAug /\ [][NextAug]_vars

----------------------------------------------------------------------------
(* Claims about the augmentation *)

\* C8: each reference gets the extra coordinate sqrt(phi - |r|^2) with phi
\* the largest squared norm of a reference, each query the extra coordinate
\* 0; then for every query q and references r1, r2 the squared L2 distance
\* of the augmented q to the augmented r1 is smaller than that to r2 exactly
\* if q.r1 > q.r2, and the two distances are equal exactly if the inner
\* products are.
C8_L2OrderIsInnerProductOrder ==
    /\ (apc \in {"augmented", "indexed"}) =>
          /\ \A q \in 1..Len(query) :
                aug_query[q] = [v |-> query[q], extra |-> RootOf(0)]
          /\ \A r \in 1..Len(reference) :
                /\ aug_reference[r].v = reference[r]
                /\ aug_reference[r].extra.root_of >= 0
                /\ \A o \in 1..Len(reference) :
                      aug_reference[r].extra.root_of + SquaredNorm(reference[r])
                          >= SquaredNorm(reference[o])
                /\ \E o \in 1..Len(reference) :
                      aug_reference[r].extra.root_of + SquaredNorm(reference[r])
                          = SquaredNorm(reference[o])
    /\ (apc = "indexed") =>
          \A q \in 1..Len(query) : \A r1, r2 \in 1..Len(reference) :
              /\ (dist[q][r1] < dist[q][r2])
                    <=> (InnerProduct(query[q], reference[r1])
                            > InnerProduct(query[q], reference[r2]))
              /\ (dist[q][r1] = dist[q][r2])
                    <=> (InnerProduct(query[q], reference[r1])
                            = InnerProduct(query[q], reference[r2]))

\* C8 witness: the distances were computed for two references of different
\* norm, the one of smaller inner product with the query being the nearer
\* one in the original space.
C8_Witness ==
    /\ apc = "indexed"
    /\ \E q \in 1..Len(query) : \E r1, r2 \in 1..Len(reference) :
          /\ SquaredNorm(reference[r1]) # SquaredNorm(reference[r2])
          /\ InnerProduct(query[q], reference[r1])
                > InnerProduct(query[q], reference[r2])
          /\ dist[q][r1] < dist[q][r2]
          /\ SquaredNorm(<<query[q][1] - reference[r1][1],
                           query[q][2] - reference[r1][2]>>)
                > SquaredNorm(<<query[q][1] - reference[r2][1],
                                query[q][2] - reference[r2][2]>>)

----------------------------------------------------------------------------
(* Candidate scores that are not finite *)

\* precision_recall only compares the scores (metric.py:40) and hands them
\* back as thresholds (metric.py:43): the floats +inf and -inf are the
\* score above, and the score below, every finite one.
PosInfScore == MaxOf(Scores) + 1
NegInfScore == MinOf(Scores) - 1
NonFiniteScores == {PosInfScore, NegInfScore}

\* The candidate tables whose score column may hold +inf or -inf: the
\* column is read as it comes (metric.py:116).
InitMetricNonFinite ==
    /\ QIIdle
    /\ SearchIdle
    /\ AugIdle
    /\ \E R \in SUBSET (1..NumRefs) :
          \E q \in [R -> QueryVideos] :
              \E f \in [R -> Scores \cup NonFiniteScores] :
                  submission_df =
                      [p \in 1..Cardinality(R) |->
                          [query_id |-> q[Ascending(R)[p]],
                           reference_id |-> RefName(Ascending(R)[p]),
                           score |-> f[Ascending(R)[p]]]]
    /\ \E G \in {H \in SUBSET (0..NumRefs) : Cardinality(H) <= MaxGt} :
          \E q \in [G -> QueryVideos] :
              gt_df = [p \in 1..Cardinality(G) |->
                          [query_id |-> q[Ascending(G)[p]],
                           reference_id |-> RefName(Ascending(G)[p])]]
    /\ mpc = "call"
    /\ metrics = [raised |-> "none"]

SpecMetricNonFinite == InitMetricNonFinite /\ [][NextMetric]_vars

HasNonFiniteScore ==
    \E a \in 1..Len(submission_df) : submission_df[a].score \in NonFiniteScores

\* C11 as claimed: when a candidate score handed to evaluate_metrics is
\* infinite, the call fails with an invalid-score error; it never returns a
\* metric computed from such a score.
C11_Claimed_NonFiniteScoreRaises ==
    (Called /\ HasNonFiniteScore) =>
        /\ mpc = "raised"
        /\ metrics.raised = "InvalidScoreError"

\* What the code does with such a score: whenever the curve can be built
\* (a pair in the ground truth), the call returns, the infinite score among
\* the thresholds it ranked by.
C11_NonFiniteScoreIsRanked ==
    (Called /\ HasNonFiniteScore /\ GtPairs(gt_df) # {}) =>
        /\ mpc = "returned"
        /\ metrics.raised = "none"
        /\ \E p \in 1..Len(submission_df) :
              metrics.thresholds[p] \in NonFiniteScores

----------------------------------------------------------------------------
(* The tie-break and the worst average precision *)

\* metric.py:45-49 and 53-72: the average precision of the curve built from
\* judgements already laid out in ranking order
CurveAP(judgements, num_positives) ==
    LET n == Len(judgements)
        precisions == [p \in 1..n |-> FDiv(CumSum(judgements, p), p)]
        recalls == [p \in 1..n |-> FDiv(CumSum(judgements, p), num_positives)]
    IN  average_precision(recalls, precisions)

\* perm lists the candidate rows by non-increasing score
NonIncreasing(perm) ==
    \A a, b \in 1..Len(submission_df) :
        (a < b) => (submission_df[perm[a]].score >= submission_df[perm[b]].score)

\* the judgements of the candidate rows taken in the order perm
JudgementsIn(perm) ==
    [p \in 1..Len(submission_df) |->
        <<submission_df[perm[p]].query_id, submission_df[perm[p]].reference_id>>
            \in GtPairs(gt_df)]

OrderingAP(perm) == CurveAP(JudgementsIn(perm), Cardinality(GtPairs(gt_df)))

\* C12: with at least one candidate and at least one ground-truth pair, the
\* order precision_recall chooses is one of the orderings of the candidates
\* by non-increasing score, the average precision returned is the one of
\* that ordering, and no ordering by non-increasing score, however its ties
\* are broken, has a smaller average precision.
C12_TieBreakGivesWorstAP ==
    (HasCurve /\ GtPairs(gt_df) # {}) =>
        /\ metrics.raised = "none"
        /\ metrics.order \in Perms(Len(submission_df))
        /\ NonIncreasing(metrics.order)
        /\ OrderingAP(metrics.order) = [raised |-> "none", ap |-> metrics.ap]
        /\ \A perm \in Perms(Len(submission_df)) :
              NonIncreasing(perm) =>
                  /\ OrderingAP(perm).raised = "none"
                  /\ FLeq(metrics.ap, OrderingAP(perm).ap)

\* C12 witness: a call returned for candidates that tie a matching row with
\* a non-matching one, and another way of breaking the tie has a strictly
\* larger average precision than the one returned.
C12_Witness ==
    /\ mpc = "returned"
    /\ GtPairs(gt_df) # {}
    /\ \E a, b \in 1..Len(submission_df) :
          /\ submission_df[a].score = submission_df[b].score
          /\ <<submission_df[a].query_id, submission_df[a].reference_id>>
                \in GtPairs(gt_df)
          /\ <<submission_df[b].query_id, submission_df[b].reference_id>>
                \notin GtPairs(gt_df)
    /\ \E perm \in Perms(Len(submission_df)) :
          /\ NonIncreasing(perm)
          /\ OrderingAP(perm).raised = "none"
          /\ ~FLeq(OrderingAP(perm).ap, metrics.ap)

----------------------------------------------------------------------------
(* The scores of hits pooled over the queries *)

\* generate_rankings.py:113: "score": -dis[j]
EmittedScore(q, r) == 0 - dist[q][r]

\* C13 as claimed: the emitted scores order the hits of all the queries as
\* their inner products do: for any two hits (q1, r1) and (q2, r2), of the
\* same query or not, score(q1, r1) > score(q2, r2) exactly when
\* q1 . r1 > q2 . r2.
C13_Claimed_PooledOrderIsInnerProductOrder ==
    (apc = "indexed") =>
        \A q1, q2 \in 1..Len(query) : \A r1, r2 \in 1..Len(reference) :
            (EmittedScore(q1, r1) > EmittedScore(q2, r2))
                <=> (InnerProduct(query[q1], reference[r1])
                        > InnerProduct(query[q2], reference[r2]))

\* What the code emits: the score is 2 q . r - |q|^2 - phi, phi the largest
\* squared norm of a reference, so the squared norm of the query shifts the
\* scores of its hits against those of the other queries.
C13_ScoreIsShiftedByQueryNorm ==
    (apc = "indexed") =>
        \A q \in 1..Len(query) : \A r \in 1..Len(reference) :
            EmittedScore(q, r) =
                2 * InnerProduct(query[q], reference[r])
                - SquaredNorm(query[q])
                - MaxOf({SquaredNorm(reference[o]) : o \in 1..Len(reference)})

====
